---- MODULE Spec2Model ----
(***************************************************************************)
(* Model of owned-fd (src/lib.rs): OwnedFd, an RAII wrapper around a       *)
(* RawFd, and FdRef, a borrow of an OwnedFd whose reference address is the *)
(* descriptor number.  The process descriptor table reached through        *)
(* libc::dup and libc::close is part of the state.                         *)
(***************************************************************************)
EXTENDS Integers, Sequences, FiniteSets

(* ---------------------------------------------------------------- bounds *)
\* descriptors 0..MaxFd are the slots libc::dup may hand out (RLIMIT_NOFILE)
MaxFd == 1
\* number of OwnedFd values alive at one time
MaxHandles == 2
\* number of &FdRef values in scope at one time
MaxViews == 1
\* largest RawFd (RawFd = i32)
RawFdMax == 2147483647

\* descriptor numbers of the model: the low slots and the largest RawFd,
\* which the environment can occupy (dup2/fcntl place a descriptor anywhere)
FdSpace == (0..MaxFd) \cup {RawFdMax}
\* sample of RawFd values a caller may pass, -1 being no descriptor at all
RawFds == FdSpace \cup {-1}

VARIABLES
    table,      \* descriptor table: FdSpace -> -1 (closed) or the open file
                \* description, named by the lowest descriptor referring to it
    dupped,     \* open descriptors created by libc::dup inside dup() and not yet
                \* given away by into_raw_fd
    ext,        \* descriptors owned by code outside OwnedFd (File, caller of into_raw_fd)
    owned,      \* the live OwnedFd values: per value of inner, how many hold it
    views,      \* the &FdRef values in scope
    last        \* the call that was made last and what it returned

vars == <<table, dupped, ext, owned, views, last>>

(* ------------------------------------------------------- the OS boundary *)
Min(S) == CHOOSE x \in S : \A y \in S : x <= y

IsOpen(i, t) == i \in FdSpace /\ t[i] >= 0

FreeSlots(t) == {f \in 0..MaxFd : t[f] < 0}

\* the descriptors that refer to the same open file description as i
Same(i, t) == {g \in FdSpace : IsOpen(i, t) /\ t[g] = t[i]}

\* names every open file description by its lowest descriptor
Canon(t) == [f \in FdSpace |-> IF t[f] < 0 THEN -1 ELSE Min(Same(f, t))]

\* return value of libc::dup(i): the lowest free descriptor, or -1
libc_dup(i, t) ==
    IF ~IsOpen(i, t) THEN -1
    ELSE IF FreeSlots(t) = {} THEN -1
    ELSE Min(FreeSlots(t))

\* errno left by a failing libc::dup(i)
libc_errno(i, t) ==
    IF ~IsOpen(i, t) THEN "EBADF"
    ELSE IF FreeSlots(t) = {} THEN "EMFILE"
    ELSE "none"

\* return value of libc::close(i)
libc_close(i, t) == IF IsOpen(i, t) THEN 0 ELSE -1

\* effect of one system call on the kernel state st = [table, dupped, ret]
OsStep(c, st) ==
    IF c.call = "dup" THEN
        LET v == libc_dup(c.fd, st.table) IN
        IF v < 0 THEN [st EXCEPT !.ret = Append(@, v)]
        ELSE [table  |-> Canon([st.table EXCEPT ![v] = st.table[c.fd]]),
              dupped |-> st.dupped \cup {v},
              ret    |-> Append(st.ret, v)]
    ELSE
        IF libc_close(c.fd, st.table) < 0 THEN [st EXCEPT !.ret = Append(@, -1)]
        ELSE [table  |-> Canon([st.table EXCEPT ![c.fd] = -1]),
              dupped |-> st.dupped \ {c.fd},
              ret    |-> Append(st.ret, 0)]

RECURSIVE RunSys(_, _)
RunSys(sys, st) ==
    IF sys = <<>> THEN st ELSE RunSys(Tail(sys), OsStep(Head(sys), st))

Kernel == [table |-> table, dupped |-> dupped, ret |-> <<>>]

Sys(call, fd) == [call |-> call, fd |-> fd]

(* ------------------------------------------------------------ the library *)
\* what a constructor hands back: res is Ok, Err or Panic; inner the
\* descriptor of the OwnedFd built; sys the system calls it issued
Outcome(res, inner, err, sys) ==
    [res |-> res, inner |-> inner, err |-> err, sys |-> sys]

\* faulty variant: the return value of libc::dup is not tested
dup_unchecked(i, t) ==
    [ok |-> TRUE, v |-> libc_dup(i, t), err |-> "none", sys |-> <<Sys("dup", i)>>]

\* unsafe fn dup(i: RawFd) -> io::Result<RawFd>
dup(i, t) ==
    LET v == libc_dup(i, t) IN
    IF v < 0
    THEN [ok |-> FALSE, v |-> -1, err |-> libc_errno(i, t), sys |-> <<Sys("dup", i)>>]
    ELSE [ok |-> TRUE, v |-> v, err |-> "none", sys |-> <<Sys("dup", i)>>]

\* faulty variant: the descriptor is wrapped as it is, without dup()
OwnedFd_from_unowned_raw_nodup(i, t) == Outcome("Ok", i, "none", <<>>)

\* OwnedFd::from_unowned_raw: Ok(OwnedFd { inner: try!(dup(i)) })
OwnedFd_from_unowned_raw(i, t) ==
    LET r == dup(i, t) IN
    IF r.ok THEN Outcome("Ok", r.v, "none", r.sys)
    ELSE Outcome("Err", -1, r.err, r.sys)

\* AsRawFd for OwnedFd
OwnedFd_as_raw_fd(h) == h.inner

\* Result::unwrap
unwrap(o) == IF o.res = "Ok" THEN o ELSE [o EXCEPT !.res = "Panic"]

\* faulty variant: OwnedFd::dup unwraps like clone
OwnedFd_dup_unwrap(h, t) ==
    unwrap(OwnedFd_from_unowned_raw(OwnedFd_as_raw_fd(h), t))

\* OwnedFd::dup
OwnedFd_dup(h, t) == OwnedFd_from_unowned_raw(OwnedFd_as_raw_fd(h), t)

\* Clone for OwnedFd: self.dup().unwrap()
OwnedFd_clone(h, t) == unwrap(OwnedFd_dup(h, t))

\* OwnedFd::from<T: IntoRawFd>(i), x the descriptor i.into_raw_fd() yields
OwnedFd_from(x, t) == Outcome("Ok", x, "none", <<>>)

\* faulty variant: from_raw_fd duplicates like from_unowned_raw
OwnedFd_from_raw_fd_dups(fd, t) == OwnedFd_from_unowned_raw(fd, t)

\* FromRawFd for OwnedFd: OwnedFd { inner: fd }
OwnedFd_from_raw_fd(fd, t) == Outcome("Ok", fd, "none", <<>>)

\* faulty variant: drop does not close
OwnedFd_drop_noclose(h) == <<>>

\* Drop for OwnedFd: the system calls of drop(&mut self)
OwnedFd_drop(h) == <<Sys("close", h.inner)>>

\* faulty variant: forget(self) is missing, so self is dropped when into_raw_fd returns
OwnedFd_into_raw_fd_noforget(h) == [v |-> h.inner, sys |-> OwnedFd_drop(h)]

\* IntoRawFd for OwnedFd: let v = self.inner; forget(self); v
OwnedFd_into_raw_fd(h) == [v |-> h.inner, sys |-> <<>>]

(* An isize is two 32-bit words, each written as the i32 with that bit     *)
(* pattern: hi the upper word, lo the lower one.                           *)
\* i as isize: sign extension
as_isize(i) == [hi |-> IF i < 0 THEN -1 ELSE 0, lo |-> i]

\* i as RawFd: truncation to the low word
as_RawFd(a) == a.lo

\* a reference is valid only if its address is not null
IsNull(a) == a.hi = 0 /\ a.lo = 0

\* FdRef::from_unowned_raw: transmute(i as isize), the address of the &FdRef
FdRef_from_unowned_raw(i) == as_isize(i)

\* Borrow<FdRef> for OwnedFd
OwnedFd_borrow(h) == FdRef_from_unowned_raw(OwnedFd_as_raw_fd(h))

\* Deref for OwnedFd
OwnedFd_deref(h) == OwnedFd_borrow(h)

\* AsRawFd for FdRef: the values the call may return.  A null &FdRef is
\* undefined behaviour, so for it every RawFd is a possible result.
FdRef_as_raw_fd(a) == IF IsNull(a) THEN RawFds ELSE {as_RawFd(a)}

\* ToOwned for FdRef: OwnedFd::from_unowned_raw(self.as_raw_fd()).unwrap()
FdRef_to_owned(a, t) ==
    {unwrap(OwnedFd_from_unowned_raw(i, t)) : i \in FdRef_as_raw_fd(a)}

\* faulty variant: borrow() hands out a reference not bound to the lifetime of self
Borrowed_unbound(h, vs) == FALSE

\* fn borrow(&self) -> &FdRef: while the reference is in scope self is
\* borrowed, and neither drop(&mut self) nor into_raw_fd(self) compiles
Borrowed(h, vs) == \E v \in vs : v.of = h

(* ------------------------------------------------------------ the state *)
\* pub struct OwnedFd { inner: RawFd }
OwnedFd(i) == [inner |-> i]

\* the descriptors held by live OwnedFd values
Held == {i \in RawFds : owned[i] > 0}

RECURSIVE Sum(_, _)
Sum(f, S) ==
    IF S = {} THEN 0
    ELSE LET x == CHOOSE y \in S : TRUE IN f[x] + Sum(f, S \ {x})

NumLive == Sum(owned, RawFds)

CanConstruct == NumLive < MaxHandles

\* no library call to report; peers is filled in by drop: the other
\* descriptors that referred to the open file description it let go of
NoCall == [op |-> "none", arg |-> -1, res |-> "None", val |-> -1,
           err |-> "none", sys |-> <<>>, ret |-> <<>>, peers |-> {}]

Init ==
    /\ table = [f \in FdSpace |-> -1]
    /\ dupped = {}
    /\ ext = {}
    /\ owned = [i \in RawFds |-> 0]
    /\ views = {}
    /\ last = NoCall

\* a constructor called with arg returned o: the kernel has run o.sys, and
\* on Ok a new OwnedFd holding o.inner is alive
Construct(op, arg, o) ==
    LET st == RunSys(o.sys, Kernel) IN
    /\ CanConstruct
    /\ table' = st.table
    /\ dupped' = st.dupped
    /\ owned' = IF o.res = "Ok"
                THEN [owned EXCEPT ![OwnedFd(o.inner).inner] = @ + 1]
                ELSE owned
    /\ last' = [op |-> op, arg |-> arg, res |-> o.res, val |-> o.inner,
                err |-> o.err, sys |-> o.sys, ret |-> st.ret, peers |-> {}]
    /\ UNCHANGED views

(* ---------------------------------------------------------- environment *)
\* code outside the library opens a resource and owns its descriptor f
ExtOpen(f) ==
    /\ ~IsOpen(f, table)
    /\ table' = [table EXCEPT ![f] = f]
    /\ ext' = ext \cup {f}
    /\ last' = NoCall
    /\ UNCHANGED <<dupped, owned, views>>

\* the outside owner of f closes it
ExtClose(f) ==
    /\ f \in ext
    /\ LET st == RunSys(<<Sys("close", f)>>, Kernel) IN
        /\ table' = st.table
            /\ dupped' = st.dupped
    /\ ext' = ext \ {f}
    /\ last' = NoCall
    /\ UNCHANGED <<owned, views>>

(* -------------------------------------------------------------- OwnedFd *)
\* OwnedFd::from(x): x gives up descriptor f and is consumed
From(f) ==
    /\ f \in ext
    /\ Construct("from", f, OwnedFd_from(f, table))
    /\ ext' = ext \ {f}

\* OwnedFd::from_raw_fd(f): the caller hands over a descriptor it owns
FromRawFd(f) ==
    /\ f \in ext
    /\ Construct("from_raw_fd", f, OwnedFd_from_raw_fd(f, table))
    /\ ext' = ext \ {f}

\* OwnedFd::from_unowned_raw(i), i any RawFd
FromUnownedRaw(i) ==
    /\ Construct("from_unowned_raw", i, OwnedFd_from_unowned_raw(i, table))
    /\ UNCHANGED ext

\* h.dup()
Dup(i) ==
    /\ i \in Held
    /\ Construct("dup", i, OwnedFd_dup(OwnedFd(i), table))
    /\ UNCHANGED ext

\* h.clone()
Clone(i) ==
    /\ i \in Held
    /\ Construct("clone", i, OwnedFd_clone(OwnedFd(i), table))
    /\ UNCHANGED ext

\* h.as_raw_fd()
AsRawFd(i) ==
    /\ i \in Held
    /\ last' = [NoCall EXCEPT !.op = "as_raw_fd", !.arg = i, !.res = "Ok",
                              !.val = OwnedFd_as_raw_fd(OwnedFd(i))]
    /\ UNCHANGED <<table, dupped, ext, owned, views>>

\* h.into_raw_fd(): h is moved into the call, the caller owns what it returns
IntoRawFd(i) ==
    /\ i \in Held
    /\ ~Borrowed(i, views)
    /\ LET o == OwnedFd_into_raw_fd(OwnedFd(i))
           st == RunSys(o.sys, Kernel) IN
        /\ table' = st.table
            /\ dupped' = st.dupped \ {o.v}
        /\ owned' = [owned EXCEPT ![i] = @ - 1]
        /\ ext' = ext \cup {o.v}
        /\ last' = [NoCall EXCEPT !.op = "into_raw_fd", !.arg = i, !.res = "Ok",
                                  !.val = o.v, !.sys = o.sys, !.ret = st.ret]
    /\ UNCHANGED views

\* the lifetime of h ends: drop(&mut self)
Drop(i) ==
    /\ i \in Held
    /\ ~Borrowed(i, views)
    /\ LET sys == OwnedFd_drop(OwnedFd(i))
           st == RunSys(sys, Kernel) IN
        /\ table' = st.table
            /\ dupped' = st.dupped
        /\ owned' = [owned EXCEPT ![i] = @ - 1]
        /\ last' = [NoCall EXCEPT !.op = "drop", !.arg = i, !.sys = sys,
                                  !.ret = st.ret, !.peers = Same(i, table) \ {i}]
    /\ UNCHANGED <<ext, views>>

(* ---------------------------------------------------------------- FdRef *)
\* a &FdRef in scope: the OwnedFd it borrows and the address it is
View(i, a) == [of |-> i, addr |-> a]

\* let r: &FdRef = h.borrow()
BorrowView(i) ==
    /\ i \in Held
    /\ Cardinality(views) < MaxViews
    /\ views' = views \cup {View(i, OwnedFd_borrow(OwnedFd(i)))}
    /\ last' = NoCall
    /\ UNCHANGED <<table, dupped, ext, owned>>

\* let r: &FdRef = &*h
DerefView(i) ==
    /\ i \in Held
    /\ Cardinality(views) < MaxViews
    /\ views' = views \cup {View(i, OwnedFd_deref(OwnedFd(i)))}
    /\ last' = NoCall
    /\ UNCHANGED <<table, dupped, ext, owned>>

\* the reference goes out of scope
EndBorrow(v) ==
    /\ v \in views
    /\ views' = views \ {v}
    /\ last' = NoCall
    /\ UNCHANGED <<table, dupped, ext, owned>>

\* r.as_raw_fd()
ViewAsRawFd(v) ==
    /\ v \in views
    /\ \E i \in FdRef_as_raw_fd(v.addr) :
          last' = [NoCall EXCEPT !.op = "view_as_raw_fd", !.arg = v.of,
                                 !.res = "Ok", !.val = i]
    /\ UNCHANGED <<table, dupped, ext, owned, views>>

\* r.to_owned()
ViewToOwned(v) ==
    /\ v \in views
    /\ \E o \in FdRef_to_owned(v.addr, table) : Construct("to_owned", v.of, o)
    /\ UNCHANGED ext

Next ==
    \/ \E f \in FdSpace : ExtOpen(f)
    \/ \E f \in FdSpace : ExtClose(f)
    \/ \E f \in FdSpace : From(f)
    \/ \E f \in FdSpace : FromRawFd(f)
    \/ \E i \in RawFds : FromUnownedRaw(i)
    \/ \E i \in RawFds : Dup(i)
    \/ \E i \in RawFds : Clone(i)
    \/ \E i \in RawFds : AsRawFd(i)
    \/ \E i \in RawFds : IntoRawFd(i)
    \/ \E i \in RawFds : Drop(i)
    \/ \E i \in RawFds : BorrowView(i)
    \/ \E i \in RawFds : DerefView(i)
    \/ \E v \in views : EndBorrow(v)
    \/ \E v \in views : ViewAsRawFd(v)
    \/ \E v \in views : ViewToOwned(v)

Spec == Init /\ [][Next]_vars

(* ---------------------------------------------------------------- claims *)
\* libc::dup failed in the last call
DupFailed ==
    \E n \in 1..Len(last.sys) : last.sys[n].call = "dup" /\ last.ret[n] < 0

DupOps == {"dup", "clone", "to_owned"}

\* number of close calls in sys on descriptor fd
RECURSIVE Closes(_, _)
Closes(sys, fd) ==
    IF sys = <<>> THEN 0
    ELSE (IF Head(sys).call = "close" /\ Head(sys).fd = fd THEN 1 ELSE 0)
         + Closes(Tail(sys), fd)

\* C1: no two live OwnedFd values hold the same descriptor.
C1_OneOwner == \A i \in RawFds : owned[i] <= 1

\* two live OwnedFd values, one a duplicate of the other
C1_Witness ==
    \E i, j \in Held : i # j /\ table[i] = table[j] /\ j \in dupped

\* C2: drop issues exactly one close on the descriptor of the OwnedFd and that
\* close releases an open descriptor; into_raw_fd issues none, returns the
\* descriptor, which stays open and is now the caller's; no descriptor a live
\* OwnedFd holds has been released behind its back.
C2_CloseOnce ==
    /\ last.op = "drop" =>
          Closes(last.sys, last.arg) = 1 /\ last.ret = <<0>>
    /\ last.op = "into_raw_fd" =>
          /\ Closes(last.sys, last.arg) = 0
          /\ last.val = last.arg
          /\ IsOpen(last.val, table)
          /\ last.val \in ext
    /\ \A i \in Held : IsOpen(i, table)

\* into_raw_fd has handed a duplicated descriptor to its caller
C2_Witness ==
    /\ last.op = "into_raw_fd"
    /\ \E j \in Held : table[j] = table[last.val]

\* C3 as stated: when libc::dup fails, every duplication other than clone
\* returns the error to its caller (calls through a null view, whose
\* behaviour is undefined, left aside).
C3_Original ==
    (/\ DupFailed
     /\ last.op # "clone"
     /\ ~IsNull(FdRef_from_unowned_raw(last.arg))) => last.res = "Err"

\* C3 as amended: when libc::dup fails, from_unowned_raw and OwnedFd::dup
\* return the OS error; clone and FdRef::to_owned panic.
C3_Amended ==
    DupFailed =>
        /\ last.op \in {"from_unowned_raw", "dup", "clone", "to_owned"}
        /\ last.op \in {"from_unowned_raw", "dup"} =>
              last.res = "Err" /\ last.err \in {"EBADF", "EMFILE"}
        /\ last.op \in {"clone", "to_owned"} => last.res = "Panic"

\* to_owned on a non-null view met a failing libc::dup
C3_Witness ==
    /\ DupFailed
    /\ last.op = "to_owned"
    /\ ~IsNull(FdRef_from_unowned_raw(last.arg))
    /\ last.res = "Panic"

\* C4: a call in which libc::dup fails constructs no OwnedFd and leaves the
\* descriptor table, the live OwnedFd values and the views as they were.
C4_NoPartialState ==
    [][DupFailed' =>
          /\ table' = table
          /\ owned' = owned
          /\ dupped' = dupped
          /\ ext' = ext
          /\ views' = views
          /\ last'.res \in {"Err", "Panic"}]_vars

\* clone failed on a live OwnedFd, which still holds its open descriptor
C4_Witness ==
    /\ DupFailed
    /\ last.op = "clone"
    /\ owned[last.arg] = 1
    /\ IsOpen(last.arg, table)

\* C5: every view obtained by borrow()/deref() is a non-null reference, and
\* as_raw_fd on it returns the descriptor of the OwnedFd it borrows.
C5_RoundTrip ==
    /\ \A v \in views :
          ~IsNull(v.addr) /\ FdRef_as_raw_fd(v.addr) = {v.of}
    /\ last.op = "view_as_raw_fd" => last.val = last.arg

C7_ReleaseIndependent ==
    [][last'.op = "drop" =>
          /\ ~IsOpen(last'.arg, table')
          /\ \A f \in FdSpace \ {last'.arg} : IsOpen(f, table') <=> IsOpen(f, table)
          /\ \A j \in RawFds :
                owned'[j] > 0 =>
                    /\ IsOpen(j, table')
                    /\ Same(j, table') = Same(j, table) \ {last'.arg}]_vars

\* one of two OwnedFd values on the same open file description was dropped
\* and the other is alive
C7_Witness ==
    /\ last.op = "drop"
    /\ \E j \in Held : j \in last.peers /\ IsOpen(j, table)

\* C8: from_raw_fd and from issue no system call, return Ok, leave the
\* descriptor table alone and build an OwnedFd on the descriptor given;
\* as_raw_fd returns the descriptor and changes nothing.
C8_PureTransfer ==
    [][/\ last'.op \in {"from", "from_raw_fd"} =>
              /\ last'.res = "Ok"
              /\ last'.sys = <<>>
              /\ table' = table
              /\ dupped' = dupped
              /\ owned' = [owned EXCEPT ![last'.arg] = @ + 1]
       /\ last'.op = "as_raw_fd" =>
              /\ last'.val = last'.arg
              /\ owned' = owned
              /\ table' = table]_vars

\* as_raw_fd was called on an OwnedFd built by from or from_raw_fd
C8_Witness ==
    /\ last.op = "as_raw_fd"
    /\ owned[last.val] = 1
    /\ last.val \notin dupped

\* C9: while a view obtained by borrow()/deref() is in scope the OwnedFd it
\* borrows is alive, was not given away and its descriptor is open; as_raw_fd
\* and to_owned on a view issue no close.
C9_ViewBacked ==
    /\ \A v \in views :
          owned[v.of] > 0 /\ IsOpen(v.of, table) /\ v.of \notin ext
    /\ last.op \in {"view_as_raw_fd", "to_owned"} =>
          \A n \in 1..Len(last.sys) : last.sys[n].call # "close"

\* to_owned was called on a view that is still in scope
C9_Witness ==
    /\ last.op = "to_owned"
    /\ \E v \in views : v.of = last.arg

\* C10: every open descriptor made by dup() and not given away by
\* into_raw_fd is held by exactly one live OwnedFd; every open descriptor has
\* exactly one owner, a live OwnedFd or code outside; with no OwnedFd alive
\* none made by dup() is left open.
C10_NoLeak ==
    /\ \A f \in dupped : IsOpen(f, table) /\ owned[f] = 1 /\ f \notin ext
    /\ \A f \in FdSpace :
          IsOpen(f, table) =>
              \/ owned[f] = 1 /\ f \notin ext
              \/ owned[f] = 0 /\ f \in ext
    /\ Held = {} => dupped = {}

\* a duplication has panicked while a duplicate made earlier is alive
C10_Witness == last.res = "Panic" /\ dupped # {}

====
